---- MODULE Spec2Model ----
(***************************************************************************)
(* Model of the AgentCore example scripts: teardown (cleanup.py), the      *)
(* status polling loop and the streamed-response decoding of the deploy    *)
(* notebook, the runtime lookup of test_invoke.py and convert_currency.    *)
(* Strings that the code parses are sequences of tokens, so that split(),  *)
(* startswith() and slicing are computed and not assumed.                  *)
(***************************************************************************)
EXTENDS Integers, Sequences, FiniteSets, TLC

VARIABLES
    rt,         \* provider: agentRuntimeName -> status ("ABSENT": not listed)
    repos,      \* provider: the ECR repository names that exist
    uri,        \* provider: containerUri listed for the configured agent's runtime
    files,      \* the local working directory: the files that exist
    pc,         \* position of the operator's session / of cleanup.py __main__
    history,    \* one record per teardown run, oldest first
    report,     \* what the last verify_cleanup listed
    npc,        \* deploy notebook: position in the status cell and the invoke cell
    status,     \* deploy notebook: the variable status
    observed,   \* the statuses agentcore_runtime.status() returned, in order
    sleeps,     \* the number of time.sleep(10) calls made
    tpc,        \* test_invoke.py: position
    invokes,    \* the invocation requests sent: who sent it, the status it met
    outcome,    \* how each script ended
    lines,      \* the lines boto3_response["response"].iter_lines() yields
    pos,        \* the number of lines the decoding loop has consumed
    content,    \* the list content of the decoding loop
    displayed,  \* the text handed to display(Markdown(...))
    amount,     \* convert_currency: amount, in hundredths
    from_currency,
    to_currency,
    result      \* what convert_currency returned

cleanupVars == <<rt, repos, uri, files, pc, history, report>>

pollVars == <<npc, status, observed, sleeps, tpc, invokes, outcome>>

decodeVars == <<lines, pos, content, displayed>>

convertVars == <<amount, from_currency, to_currency, result>>

vars == <<cleanupVars, pollVars, decodeVars, convertVars>>

----------------------------------------------------------------------------
(* Bounds *)

\* teardown runs in one session
MaxRuns == 2

\* status queries the notebook's polling loop is followed for
MaxPolls == 4

\* the timeout of the wait, in poll cycles (the code sets none)
TimeoutCycles == 2

\* lines in one streamed response
MaxLines == 3

\* the largest amount converted, in hundredths, besides the round amounts
MaxCents == 120

----------------------------------------------------------------------------
(* Names and strings *)

\* deploy.py: agent_name of runtime.configure, the name .bedrock_agentcore.yaml holds
agent_name == "my_strands_agent"

\* the deploy notebook's agent, another runtime of the same account
other_agent == "strands_claude_getting_started"

AgentNames == {agent_name, other_agent}

ConfigFile == ".bedrock_agentcore.yaml"

\* cleanup.py: local_files, in the order of the list
local_files == <<ConfigFile, "Dockerfile", ".dockerignore", "agent_config.json">>

LocalFiles == {local_files[i] : i \in 1..Len(local_files)}

\* f"bedrock-agentcore-{agent_name}"
DefaultRepositoryName(name) == <<"bedrock-agentcore-", name>>

OtherRepository == <<"web-assets">>

Registry == "123456789012.dkr.ecr.us-west-2.amazonaws.com"

\* what the provider may list as containerUri: '', a tagged URI, an untagged
\* URI, and a value without any '/'
ContainerUris ==
    { <<>>,
      <<Registry, "/", "bedrock-agentcore-", agent_name, ":", "latest">>,
      <<Registry, "/", "bedrock-agentcore-", agent_name>>,
      <<"bedrock-agentcore-", agent_name>> }

\* str.split(sep): the segments of s between the separators
RECURSIVE Split(_, _)
Split(s, sep) ==
    IF \A i \in 1..Len(s) : s[i] # sep
    THEN <<s>>
    ELSE LET k == CHOOSE i \in 1..Len(s) :
                     s[i] = sep /\ \A j \in 1..(i - 1) : s[j] # sep
         IN  <<SubSeq(s, 1, k - 1)>> \o Split(SubSeq(s, k + 1, Len(s)), sep)

\* ecr_uri.split('/')[1] raises IndexError when the URI holds no '/'
UriIndexError(u) == Len(Split(u, "/")) < 2

\* ecr_uri.split('/')[1].split(':')[0]
UriRepositoryName(u) == Split(Split(u, "/")[2], ":")[1]

\* cleanup_by_config: the repository it asks the provider to delete
RepositoryToDelete(u, name) ==
    IF u # <<>> THEN UriRepositoryName(u) ELSE DefaultRepositoryName(name)

\* launch_result.ecr_uri of a launch of the configured agent
LaunchEcrUri == <<Registry, "/", "bedrock-agentcore-", agent_name>>

\* launch_result.ecr_uri.split('/')[1]
LaunchRepositoryName == Split(LaunchEcrUri, "/")[2]

----------------------------------------------------------------------------
(* The provider *)

RuntimeStatus == {"ABSENT", "READY", "DELETING", "DELETE_FAILED"}

\* list_agent_runtimes: the runtimes that exist, DELETING ones included
ListedRuntimes(r) == {n \in AgentNames : r[n] # "ABSENT"}

\* delete_agent_runtime on a runtime in status s: the request is accepted and
\* the runtime starts DELETING, or the provider raises and nothing changes
DeleteRuntimeOutcomes(s) ==
    {[raised |-> TRUE, st |-> s]}
        \cup (IF s \in {"READY", "DELETE_FAILED"}
              THEN {[raised |-> FALSE, st |-> "DELETING"]}
              ELSE {})

\* what an asynchronous deletion may have become after a while
Progress(s) ==
    IF s = "DELETING" THEN {"DELETING", "ABSENT", "DELETE_FAILED"} ELSE {s}

\* delete_repository(repositoryName=n, force=True): deletes an existing
\* repository or raises; a missing repository always raises
DeleteRepositoryOutcomes(rs, n) ==
    {[raised |-> TRUE, repos |-> rs]}
        \cup (IF n \in rs
              THEN {[raised |-> FALSE, repos |-> rs \ {n}]}
              ELSE {})

----------------------------------------------------------------------------
(* cleanup.py *)

\* for file in local_files: if exists: unlink
UnlinkLocalFiles(fs) == fs \ LocalFiles

\* a lookup that takes the first listed runtime, whatever its name
FindRuntimeAnyName(r, name) ==
    IF ListedRuntimes(r) # {} THEN CHOOSE n \in ListedRuntimes(r) : TRUE
    ELSE "None"

\* the loop over runtimes: the id of the runtime whose name matches
FindRuntime(r, name) == IF name \in ListedRuntimes(r) THEN name ELSE "None"

\* no verification has run since the last teardown started
NoReport == [ran |-> FALSE, listed |-> FALSE, runtimes |-> {}, repos |-> {}]

NoRun ==
    [fn |-> "none", ret |-> FALSE, listed |-> FALSE, found |-> FALSE,
     launched |-> FALSE, rtReq |-> "none",
     repoReq |-> "none", repoName |-> <<>>, unlinked |-> FALSE,
     hadConfig |-> FALSE, rtAtUnlink |-> "n/a", verifiedAtUnlink |-> FALSE,
     preRt |-> "ABSENT", preRepos |-> {}, preFiles |-> {},
     postRt |-> "ABSENT", postRepos |-> {}, postFiles |-> {}]

\* the record of a run that starts in the current state
Begin(fn) ==
    [NoRun EXCEPT !.fn = fn, !.hadConfig = ConfigFile \in files,
                  !.preRt = rt[agent_name], !.preRepos = repos,
                  !.preFiles = files]

\* the run ends in provider state (r, rs) and local state fs
Finish(rec, r, rs, fs) ==
    /\ rt' = r
    /\ repos' = rs
    /\ files' = fs
    /\ history' = Append(history,
                         [rec EXCEPT !.postRt = r[agent_name],
                                     !.postRepos = rs, !.postFiles = fs])

\* step 2 of cleanup_by_config / step 3 of cleanup_from_launch_result, then
\* return True; the record notes the provider's state as the files go
UnlinkAndReturn(rec, r, rs) ==
    Finish([rec EXCEPT !.unlinked = TRUE, !.ret = TRUE,
                       !.rtAtUnlink = r[agent_name],
                       !.verifiedAtUnlink = report'.ran],
           r, rs, UnlinkLocalFiles(files))

\* return False from where the run stands
ReturnFalse(rec, r, rs) == Finish([rec EXCEPT !.ret = FALSE], r, rs, files)

CleanupByConfig ==
    /\ pc = "main"
    /\ Len(history) < MaxRuns
    /\ pc' = "verify"
    /\ report' = NoReport
    /\ UNCHANGED <<uri, pollVars, decodeVars, convertVars>>
    /\ LET rec == Begin("by_config") IN
       IF ConfigFile \notin files
       THEN ReturnFalse(rec, rt, repos)
       ELSE \E listOk \in BOOLEAN :
            IF ~listOk
            THEN ReturnFalse(rec, rt, repos)
            ELSE LET agent_id == FindRuntime(rt, agent_name)
                     rec0 == [rec EXCEPT !.listed = TRUE]
                 IN
                 IF agent_id = "None"
                 THEN UnlinkAndReturn(rec0, rt, repos)
                 ELSE \E d \in DeleteRuntimeOutcomes(rt[agent_id]) :
                      LET rec1 == [rec0 EXCEPT !.found = TRUE] IN
                      IF d.raised
                      THEN ReturnFalse([rec1 EXCEPT !.rtReq = "raised"], rt, repos)
                      ELSE \E s \in Progress(d.st) :
                           LET r2 == [rt EXCEPT ![agent_id] = s]
                               rec2 == [rec1 EXCEPT !.rtReq = "accepted"]
                           IN
                           IF uri # <<>> /\ UriIndexError(uri)
                           THEN ReturnFalse(rec2, r2, repos)
                           ELSE LET n == RepositoryToDelete(uri, agent_name) IN
                                \E e \in DeleteRepositoryOutcomes(repos, n) :
                                    UnlinkAndReturn(
                                        [rec2 EXCEPT
                                            !.repoReq = IF e.raised THEN "raised"
                                                        ELSE "deleted",
                                            !.repoName = n],
                                        r2, e.repos)

\* runtime.launch() raised: without a configuration nothing was touched;
\* a deployment that failed midway may have created the repository already
LaunchFailureRepos(fs, rs) ==
    IF ConfigFile \in fs THEN {rs, rs \cup {LaunchRepositoryName}} ELSE {rs}

\* a teardown that gives up when the runtime deletion raised
AbortOnRuntimeError(rec, r, rs) ==
    IF rec.rtReq = "raised" THEN ReturnFalse(rec, r, rs)
    ELSE UnlinkAndReturn(rec, r, rs)

\* cleanup_from_launch_result after its two inner try blocks: step 3 and
\* return True, whatever the deletions did
AfterDeletions(rec, r, rs) == UnlinkAndReturn(rec, r, rs)

\* runtime.launch(): raises when the project is not configured or the
\* deployment fails; otherwise the agent's runtime and repository exist
CleanupFromLaunchResult ==
    /\ pc = "main"
    /\ Len(history) < MaxRuns
    /\ pc' = "main"
    /\ report' = NoReport
    /\ UNCHANGED <<uri, pollVars, decodeVars, convertVars>>
    /\ LET rec == Begin("from_launch") IN
       \E launched \in (IF ConfigFile \in files THEN BOOLEAN ELSE {FALSE}) :
       IF ~launched
       THEN \E rs0 \in LaunchFailureRepos(files, repos) :
                ReturnFalse(rec, rt, rs0)
       ELSE LET r1 == [rt EXCEPT ![agent_name] = "READY"]
                rs1 == repos \cup {LaunchRepositoryName}
                rec1 == [rec EXCEPT !.found = TRUE, !.launched = TRUE]
            IN
            \E d \in DeleteRuntimeOutcomes(r1[agent_name]) :
            \E s \in Progress(d.st) :
            \E e \in DeleteRepositoryOutcomes(rs1, LaunchRepositoryName) :
                AfterDeletions(
                    [rec1 EXCEPT
                        !.rtReq = IF d.raised THEN "raised" ELSE "accepted",
                        !.repoReq = IF e.raised THEN "raised" ELSE "deleted",
                        !.repoName = LaunchRepositoryName],
                    [r1 EXCEPT ![agent_name] = s], e.repos)

\* 'bedrock-agentcore' in r['repositoryName']
IsBedrockRepository(n) == \E i \in 1..Len(n) : n[i] = "bedrock-agentcore-"

\* verify_cleanup: lists what still exists; each listing may raise, which is
\* printed and not reported further
VerifyCleanup ==
    /\ pc = "verify"
    /\ pc' = "main"
    /\ \E listOk \in BOOLEAN, ecrOk \in BOOLEAN :
        report' = [ran |-> TRUE,
                   listed |-> listOk /\ ecrOk,
                   runtimes |-> IF listOk THEN ListedRuntimes(rt) ELSE {},
                   repos |-> IF ecrOk
                             THEN {n \in repos : IsBedrockRepository(n)}
                             ELSE {}]
    /\ UNCHANGED <<rt, repos, uri, files, history>>
    /\ UNCHANGED <<pollVars, decodeVars, convertVars>>

\* the provider completes (or fails) an asynchronous deletion on its own
ProviderStep ==
    /\ \E n \in AgentNames :
        /\ rt[n] = "DELETING"
        /\ \E s \in {"ABSENT", "DELETE_FAILED"} : rt' = [rt EXCEPT ![n] = s]
    /\ UNCHANGED <<repos, uri, files, pc, history, report>>
    /\ UNCHANGED <<pollVars, decodeVars, convertVars>>

\* the scripts that do not run stay where they start
PollIdle ==
    /\ npc = "status"
    /\ status = "None"
    /\ observed = <<>>
    /\ sleeps = 0
    /\ tpc = "start"
    /\ invokes = {}
    /\ outcome = [notebook |-> "none", test_invoke |-> "none"]

DecodeIdle ==
    /\ lines = <<>>
    /\ pos = 0
    /\ content = <<>>
    /\ displayed = <<"None">>

ConvertIdle ==
    /\ amount = 0
    /\ from_currency = "USD"
    /\ to_currency = "USD"
    /\ result = [kind |-> "none"]

CleanupIdle ==
    /\ rt = [n \in AgentNames |-> "ABSENT"]
    /\ repos = {}
    /\ uri = <<>>
    /\ files = {}
    /\ pc = "main"
    /\ history = <<>>
    /\ report = NoReport

Init ==
    /\ rt \in [AgentNames -> RuntimeStatus]
    /\ rt[other_agent] \in {"ABSENT", "READY"}
    /\ repos \in SUBSET {DefaultRepositoryName(agent_name), OtherRepository}
    /\ uri \in ContainerUris
    /\ files \in {{}, {ConfigFile}, LocalFiles}
    /\ pc = "main"
    /\ history = <<>>
    /\ report = NoReport
    /\ PollIdle
    /\ DecodeIdle
    /\ ConvertIdle

Next ==
    \/ CleanupByConfig
    \/ CleanupFromLaunchResult
    \/ VerifyCleanup
    \/ ProviderStep

Spec == Init /\ [][Next]_vars

----------------------------------------------------------------------------
(* The deploy notebook: status polling, then invoke *)

\* what agentcore_runtime.status() may report for the endpoint
EndpointStatus ==
    {"CREATING", "UPDATING", "READY", "CREATE_FAILED", "DELETE_FAILED",
     "UPDATE_FAILED"}

end_status == {"READY", "CREATE_FAILED", "DELETE_FAILED", "UPDATE_FAILED"}

\* time.sleep(10)
PollInterval == 10

\* a loop test that only knows READY
LoopConditionReadyOnly(st) == st # "READY"

\* while status not in end_status
LoopCondition(st) == st \notin end_status

\* status_response = agentcore_runtime.status(); status = ...endpoint['status']
QueryStatus ==
    /\ npc = "status"
    /\ \E s \in EndpointStatus :
        /\ status' = s
        /\ observed' = Append(observed, s)
    /\ npc' = "while"
    /\ UNCHANGED <<sleeps, tpc, invokes, outcome>>
    /\ UNCHANGED <<cleanupVars, decodeVars, convertVars>>

\* one turn of the loop body: sleep, query, print
PollCycle ==
    /\ npc = "while"
    /\ LoopCondition(status)
    /\ Len(observed) < MaxPolls
    /\ sleeps' = sleeps + 1
    /\ \E s \in EndpointStatus :
        /\ status' = s
        /\ observed' = Append(observed, s)
    /\ UNCHANGED <<npc, tpc, invokes, outcome>>
    /\ UNCHANGED <<cleanupVars, decodeVars, convertVars>>

\* the loop test fails: on to the next cell
ExitLoop ==
    /\ npc = "while"
    /\ ~LoopCondition(status)
    /\ npc' = "invoke"
    /\ UNCHANGED <<status, observed, sleeps, tpc, invokes, outcome>>
    /\ UNCHANGED <<cleanupVars, decodeVars, convertVars>>

\* invoke_response = agentcore_runtime.invoke({...}), whatever status is
Invoke ==
    /\ npc = "invoke"
    /\ invokes' = invokes \cup {[by |-> "notebook", status |-> status]}
    /\ outcome' = [outcome EXCEPT !.notebook = "invoked"]
    /\ npc' = "done"
    /\ UNCHANGED <<status, observed, sleeps, tpc>>
    /\ UNCHANGED <<cleanupVars, decodeVars, convertVars>>

----------------------------------------------------------------------------
(* test_invoke.py *)

\* the loop over runtimes: the runtime whose agentRuntimeName is agent_name
FindRuntimeArn(r, name) == IF name \in ListedRuntimes(r) THEN name ELSE "None"

\* the whole script: read the config, look the runtime up by name, invoke it
TestInvoke ==
    /\ tpc = "start"
    /\ tpc' = "done"
    /\ IF ConfigFile \notin files
       THEN /\ outcome' = [outcome EXCEPT !.test_invoke = "FileNotFoundError"]
            /\ UNCHANGED invokes
       ELSE \E listOk \in BOOLEAN :
            LET agent_arn == IF listOk THEN FindRuntimeArn(rt, agent_name)
                             ELSE "None"
            IN
            IF agent_arn = "None"
            THEN /\ outcome' = [outcome EXCEPT !.test_invoke = "error printed"]
                 /\ UNCHANGED invokes
            ELSE /\ invokes' = invokes \cup
                        {[by |-> "test_invoke", status |-> rt[agent_arn]]}
                 /\ \E o \in {"invoked", "error printed"} :
                        outcome' = [outcome EXCEPT !.test_invoke = o]
    /\ UNCHANGED <<npc, status, observed, sleeps>>
    /\ UNCHANGED <<cleanupVars, decodeVars, convertVars>>

InitPoll ==
    /\ rt \in [AgentNames -> RuntimeStatus]
    /\ rt[other_agent] \in {"ABSENT", "READY"}
    /\ repos = {}
    /\ uri = <<>>
    /\ files \in {{}, {ConfigFile}}
    /\ pc = "main"
    /\ history = <<>>
    /\ report = NoReport
    /\ PollIdle
    /\ DecodeIdle
    /\ ConvertIdle

NextPoll ==
    \/ QueryStatus
    \/ PollCycle
    \/ ExitLoop
    \/ Invoke
    \/ TestInvoke

SpecPoll == InitPoll /\ [][NextPoll]_vars

----------------------------------------------------------------------------
(* The deploy notebook: decoding a text/event-stream response *)

\* "data: "
Marker == <<"d", "a", "t", "a", ":", " ">>

\* the 6 of line[6:]
MarkerSkip == 6

\* the lines a response may hold: an empty line, data lines, a bare marker, a
\* marker without its space, a comment, an indented marker, a doubled marker
\* and a short line
StreamLines ==
    { <<>>,
      Marker \o <<"Hello">>,
      Marker \o <<"World">>,
      Marker,
      <<"d", "a", "t", "a", ":", "Hello">>,
      <<":", " ", "ping">>,
      <<" ">> \o Marker \o <<"x">>,
      Marker \o Marker \o <<"x">>,
      <<"d", "a", "t", "a">> }

\* line.startswith(prefix)
StartsWith(line, prefix) ==
    /\ Len(line) >= Len(prefix)
    /\ SubSeq(line, 1, Len(prefix)) = prefix

\* a slice that starts one character early
StripMarkerOffByOne(line) == SubSeq(line, MarkerSkip, Len(line))

\* line[6:]
StripMarker(line) == SubSeq(line, MarkerSkip + 1, Len(line))

\* "\n".join(content)
RECURSIVE JoinNewline(_)
JoinNewline(c) ==
    IF c = <<>> THEN <<>>
    ELSE IF Len(c) = 1 THEN c[1]
    ELSE c[1] \o <<"\n">> \o JoinNewline(Tail(c))

\* nothing has been displayed yet
NotDisplayed == <<"None">>

\* one turn of the for loop over iter_lines
DecodeLine ==
    /\ pos < Len(lines)
    /\ displayed = NotDisplayed
    /\ LET line == lines[pos + 1] IN
       content' = IF line # <<>> /\ StartsWith(line, Marker)
                  THEN Append(content, StripMarker(line))
                  ELSE content
    /\ pos' = pos + 1
    /\ UNCHANGED <<lines, displayed>>
    /\ UNCHANGED <<cleanupVars, pollVars, convertVars>>

\* display(Markdown("\n".join(content))) once the stream has ended
DisplayContent ==
    /\ pos = Len(lines)
    /\ displayed = NotDisplayed
    /\ displayed' = JoinNewline(content)
    /\ UNCHANGED <<lines, pos, content>>
    /\ UNCHANGED <<cleanupVars, pollVars, convertVars>>

\* all sequences of at most n stream lines
LineSeqs(n) == UNION {[1..k -> StreamLines] : k \in 0..n}

InitDecode ==
    /\ lines \in LineSeqs(MaxLines)
    /\ pos = 0
    /\ content = <<>>
    /\ displayed = NotDisplayed
    /\ CleanupIdle
    /\ PollIdle
    /\ ConvertIdle

NextDecode ==
    \/ DecodeLine
    \/ DisplayContent

SpecDecode == InitDecode /\ [][NextDecode]_vars

----------------------------------------------------------------------------
(* convert_currency (01_create_strands_agent.py and agent.py, the same body) *)

\* rates, in hundredths
rates == [USD |-> 100, SGD |-> 135, EUR |-> 92, JPY |-> 14950]

\* the codes a caller may pass
CurrencyCodes == {"USD", "SGD", "EUR", "JPY", "GBP", "usd"}

\* the amounts a caller may pass, in hundredths
Amounts == ((0 - MaxCents)..MaxCents) \cup {10000}

\* a test that rejects only when both codes are unknown
UnsupportedBoth(f, t) == f \notin DOMAIN rates /\ t \notin DOMAIN rates

\* from_currency not in rates or to_currency not in rates
Unsupported(f, t) == f \notin DOMAIN rates \/ t \notin DOMAIN rates

\* f"{result:.2f}": the hundredths nearest to the quotient q.num / q.den; a
\* quotient exactly half way is printed either way, as the binary value
\* behind it lies on one side or the other
Format2f(q) ==
    LET fl == q.num \div q.den
        r  == q.num % q.den
    IN  IF 2 * r < q.den THEN {fl}
        ELSE IF 2 * r > q.den THEN {fl + 1}
        ELSE {fl, fl + 1}

\* convert_currency(amount, from_currency, to_currency): what it may return;
\* rates[...] of a code that is not in the table raises KeyError
convert_currency(a, f, t) ==
    IF Unsupported(f, t)
    THEN {[kind |-> "Currency not supported"]}
    ELSE IF f \notin DOMAIN rates \/ t \notin DOMAIN rates
    THEN {[kind |-> "KeyError"]}
    ELSE LET usd_amount == [num |-> a, den |-> rates[f]]
             res == [num |-> usd_amount.num * rates[t], den |-> usd_amount.den]
         IN  {[kind |-> "converted", amount |-> a, from |-> f, value |-> v,
               to |-> t] : v \in Format2f(res)}

ConvertCurrency ==
    /\ result = [kind |-> "none"]
    /\ result' \in convert_currency(amount, from_currency, to_currency)
    /\ UNCHANGED <<amount, from_currency, to_currency>>
    /\ UNCHANGED <<cleanupVars, pollVars, decodeVars>>

InitConvert ==
    /\ amount \in Amounts
    /\ from_currency \in CurrencyCodes
    /\ to_currency \in CurrencyCodes
    /\ result = [kind |-> "none"]
    /\ CleanupIdle
    /\ PollIdle
    /\ DecodeIdle

NextConvert == ConvertCurrency

SpecConvert == InitConvert /\ [][NextConvert]_vars

----------------------------------------------------------------------------
(* Teardown: cleanup.py *)

Runs == 1..Len(history)

LastRun == history[Len(history)]

\* C1: in every teardown run, a rejected agent-runtime deletion does not
\* abort the later steps: the run still asks for the image repository to be
\* deleted and still removes the local files.
C1_RuntimeFailureDoesNotAbort ==
    \A i \in Runs :
        history[i].rtReq = "raised"
            => /\ history[i].repoReq # "none"
               /\ history[i].unlinked

\* C1 (observation): cleanup_from_launch_result alone keeps the promise.
C1_FromLaunchContinues ==
    \A i \in Runs :
        (history[i].fn = "from_launch" /\ history[i].rtReq = "raised")
            => /\ history[i].repoReq # "none"
               /\ history[i].unlinked
               /\ history[i].ret

\* C2: teardown is idempotent: a run that directly follows a successful run of
\* the same teardown function succeeds too, and leaves the provider and the
\* local files as the first run left them.
C2_TeardownTwiceSucceeds ==
    \A i \in Runs :
        (i > 1 /\ history[i - 1].fn = history[i].fn /\ history[i - 1].ret)
            => /\ history[i].ret
               /\ history[i].postRt = history[i].preRt
               /\ history[i].postRepos = history[i].preRepos
               /\ history[i].postFiles = history[i].preFiles

\* C2 (observation): the second run changes nothing; only its result differs.
C2_SecondRunChangesNothing ==
    \A i \in Runs :
        (i > 1 /\ history[i - 1].fn = history[i].fn /\ history[i - 1].ret)
            => /\ ~history[i].ret
               /\ history[i].postRt = history[i].preRt
               /\ history[i].postRepos = history[i].preRepos
               /\ history[i].postFiles = history[i].preFiles

\* C3: the descriptor file .bedrock_agentcore.yaml is removed only after
\* verification has run and the agent runtime is gone from the provider.
C3_DescriptorRemovedAfterVerifiedDeleted ==
    \A i \in Runs :
        (history[i].unlinked /\ history[i].hadConfig)
            => /\ history[i].rtAtUnlink = "ABSENT"
               /\ history[i].verifiedAtUnlink

\* C3 (observation): the part of C3 about the provider alone: the descriptor
\* file is never removed while the agent runtime still exists.
C3_DescriptorRemovedOnlyWhenRuntimeGone ==
    \A i \in Runs :
        (history[i].unlinked /\ history[i].hadConfig)
            => history[i].rtAtUnlink = "ABSENT"

\* C7: after cleanup_by_config returned True, the verify_cleanup that follows
\* lists no runtime named agent_name and no bedrock-agentcore repository of it.
C7_VerifyAfterTeardownFindsNothing ==
    (/\ pc = "main"
     /\ report.ran
     /\ Len(history) > 0
     /\ LastRun.fn = "by_config"
     /\ LastRun.ret)
        => /\ agent_name \notin report.runtimes
           /\ DefaultRepositoryName(agent_name) \notin report.repos

\* C10: in cleanup_by_config, when the config file exists and the listing
\* succeeds without a runtime named agent_name, no delete request is issued,
\* the local files are removed and the result is True; a repository deletion
\* is requested only after a matching runtime's deletion was accepted.
C10_NotFoundDeletesNothingRemote ==
    \A i \in Runs :
        history[i].fn = "by_config"
            => /\ (/\ history[i].hadConfig
                   /\ history[i].listed
                   /\ history[i].preRt = "ABSENT")
                    => /\ history[i].rtReq = "none"
                       /\ history[i].repoReq = "none"
                       /\ history[i].postRt = history[i].preRt
                       /\ history[i].postRepos = history[i].preRepos
                       /\ history[i].postFiles \cap LocalFiles = {}
                       /\ history[i].ret
               /\ history[i].repoReq # "none"
                    => /\ history[i].preRt # "ABSENT"
                       /\ history[i].rtReq = "accepted"

\* C10 witness: a run of cleanup_by_config that found no runtime while the
\* agent's repository existed, and removed the config file.
C10_Witness ==
    \E i \in Runs :
        /\ history[i].fn = "by_config"
        /\ history[i].hadConfig
        /\ history[i].listed
        /\ history[i].preRt = "ABSENT"
        /\ DefaultRepositoryName(agent_name) \in history[i].postRepos
        /\ history[i].ret

C11_LaunchRaisedReached ==
    \E i \in Runs :
        /\ history[i].fn = "from_launch"
        /\ ~history[i].launched
        /\ ConfigFile \in history[i].postFiles

----------------------------------------------------------------------------
(* Status polling and invocation *)

PastLoop == npc \in {"invoke", "done"}

NoTerminalSeen == \A i \in 1..Len(observed) : observed[i] \notin end_status

\* C4: the polling loop returns at the first terminal status, with that
\* status, and queries no more; it sleeps once between consecutive queries;
\* on CREATING, CREATING, READY it returns after 2 poll cycles with READY.
C4_ReturnsAtFirstTerminalStatus ==
    /\ \A i \in 1..(Len(observed) - 1) : observed[i] \notin end_status
    /\ Len(observed) > 0
        => /\ sleeps = Len(observed) - 1
           /\ status = observed[Len(observed)]
    /\ PastLoop => (Len(observed) > 0 /\ status \in end_status)
    /\ (/\ Len(observed) >= 3
        /\ SubSeq(observed, 1, 3) = <<"CREATING", "CREATING", "READY">>)
        => /\ Len(observed) = 3
           /\ sleeps = 2
           /\ status = "READY"

\* C4 witness: the provider reported CREATING, CREATING, READY and the loop
\* has returned.
C4_Witness ==
    /\ npc = "invoke"
    /\ observed = <<"CREATING", "CREATING", "READY">>
    /\ sleeps = 2

\* C5: the wait always ends: once the timeout has elapsed without a terminal
\* status no further poll cycle is made, and the wait ends with
\* ProvisioningTimeout, the last observed status left as it is.
C5_WaitEndsWithProvisioningTimeout ==
    /\ sleeps * PollInterval <= TimeoutCycles * PollInterval
    /\ (PastLoop /\ NoTerminalSeen) => outcome.notebook = "ProvisioningTimeout"

\* C6: an invocation request is sent only when the status is READY; a run
\* that ends on another status fails with ResourceNotReady.
C6_InvokeOnlyWhenReady ==
    /\ \A x \in invokes : x.status = "READY"
    /\ (npc = "done" /\ status # "READY")
        => outcome.notebook = "ResourceNotReady"

----------------------------------------------------------------------------
(* Streamed response decoding *)

\* a line is a data line when its first characters spell the marker
IsDataLine(l) ==
    /\ Len(l) >= Len(Marker)
    /\ \A i \in 1..Len(Marker) : l[i] = Marker[i]

\* what follows the marker in a data line
Payload(l) == [i \in 1..(Len(l) - Len(Marker)) |-> l[i + Len(Marker)]]

\* the payloads of the data lines of ls, in the order of ls
RECURSIVE Fragments(_)
Fragments(ls) ==
    IF ls = <<>> THEN <<>>
    ELSE (IF IsDataLine(Head(ls)) THEN <<Payload(Head(ls))>> ELSE <<>>)
             \o Fragments(Tail(ls))

\* C8: the decoded content is the sequence of the lines that start with
\* "data: ", each without that marker, in arrival order, joined with newline;
\* "data: Hello", "data: World" decode to "Hello\nWorld".
C8_DecodingKeepsOrderAndStripsMarker ==
    /\ content = Fragments(SubSeq(lines, 1, pos))
    /\ displayed # NotDisplayed
        => /\ pos = Len(lines)
           /\ displayed = JoinNewline(Fragments(lines))
    /\ (/\ displayed # NotDisplayed
        /\ lines = <<Marker \o <<"Hello">>, Marker \o <<"World">> >>)
        => displayed = <<"Hello", "\n", "World">>

\* C8 witness: the two chunks of the example have been decoded and displayed.
C8_Witness ==
    /\ lines = <<Marker \o <<"Hello">>, Marker \o <<"World">> >>
    /\ displayed = <<"Hello", "\n", "World">>

----------------------------------------------------------------------------
(* convert_currency *)

\* the table of the claim, in hundredths
ClaimedTable == {"USD", "SGD", "EUR", "JPY"}

ClaimedRate(c) ==
    CASE c = "USD" -> 100
      [] c = "SGD" -> 135
      [] c = "EUR" -> 92
      [] c = "JPY" -> 14950

Abs(x) == IF x < 0 THEN 0 - x ELSE x

\* C9: convert_currency never raises for an unknown code: a code outside the
\* table gives the "Currency not supported" result; otherwise the result is
\* amount / rate[from] * rate[to] to the nearest hundredth, 100 USD to SGD is
\* 135.00 and a currency converted to itself keeps the amount.
C9_ConvertCurrencyTotalAndRounded ==
    result.kind # "none"
        => /\ result.kind \in {"Currency not supported", "converted"}
           /\ result.kind = "Currency not supported"
                <=> (from_currency \notin ClaimedTable
                        \/ to_currency \notin ClaimedTable)
           /\ result.kind = "converted"
                => /\ 2 * Abs(result.value * ClaimedRate(from_currency)
                               - amount * ClaimedRate(to_currency))
                        <= ClaimedRate(from_currency)
                   /\ (amount = 10000 /\ from_currency = "USD"
                        /\ to_currency = "SGD") => result.value = 13500
                   /\ from_currency = to_currency => result.value = amount

\* C9 witness: 100 USD have been converted to 135.00 SGD.
C9_Witness ==
    /\ result.kind = "converted"
    /\ amount = 10000
    /\ from_currency = "USD"
    /\ to_currency = "SGD"
    /\ result.value = 13500

====
